---- MODULE Spec2Model ----
(***************************************************************************)
(* Model of Unit-Testing-Practice:                                         *)
(*   services/api.js      getTasks, createTask   (transport client)        *)
(*   logic/task_list.js   loadTasks, filterTasksByStatus                   *)
(*   models/task.js       the Task schema, toggleCompletion, isOverdue     *)
(* JavaScript values are tagged records; strings are sequences of text     *)
(* pieces and string concatenation is \o; arrays are objects on a heap,    *)
(* named by references, so that aliasing and mutation can be observed.     *)
(***************************************************************************)
EXTENDS Integers, Sequences, FiniteSets

VARIABLES
  pc,       \* per caller: where its current call is suspended
  op,       \* per caller: the exported function it called
  mocked,   \* per caller: whether api.getTasks is a jest mock in this call
  reqs,     \* per caller: the fetch requests issued by the current call
  settled,  \* per caller: how the promise of getTasks/createTask settled
  net,      \* per caller: what the network did in the current call
  result,   \* per caller: the value loadTasks resolved to
  trace,    \* per caller: the observable events of the current call, in order
  heap,     \* the array objects built by loadTasks and filterTasksByStatus
  lastFilter, \* per caller: the last filterTasksByStatus call it made
  store,    \* the tasks collection: per identity, the stored document or none
  used,     \* the identities the collection has assigned so far
  docs,     \* per handle: the in-memory Task document a caller holds
  now,      \* the clock read by Date.now
  last,     \* the last operation on the Task model and how it ended
  prevToggle \* while no other operation has followed the latest successful
            \* toggleCompletion: its handle and the completed values before
            \* it and, when it followed another one directly, the handle of
            \* that one and the values before it
  ,
  mongoServer, \* db-handler's module variable: the registered server or none
  servers,  \* the in-memory servers that are running
  created,  \* how many in-memory servers have been created so far
  readyState, \* mongoose.connection.readyState
  db        \* per caller of the database handler: its current call

frontVars == <<pc, op, mocked, reqs, settled, net, result, trace, heap, lastFilter>>
storeVars == <<store, used, docs, now, last, prevToggle>>
dbVars == <<mongoServer, servers, created, readyState, db>>
vars == <<frontVars, storeVars, dbVars>>

-----------------------------------------------------------------------------
(* Bounds of the model *)

\* longest array a response body holds
MaxLen == 2

\* the callers that exist, and those that run in the sequential specification
Callers == {"c1", "c2"}
SeqCallers == {"c1"}

\* array references available on the heap
Refs == {"r1", "r2", "r3"}

\* the latest instant the clock reaches
MaxTime == 2

\* the variables holding Task documents, and those used in the sequential
\* specification of the model
Handles == {"h1", "h2"}
SeqHandles == {"h1"}

\* the numbers of the identities the collection can assign, and of those it
\* assigns in the sequential specification of the model
IdNumbers == {1, 2}
SeqIdNumbers == {1}

\* the most in-memory servers that are ever created
MaxServers == 3

\* the callers of the database handler, and those of the sequential
\* specification of the handler
DbCallers == {"d1", "d2"}
SeqDbCallers == {"d1"}

-----------------------------------------------------------------------------
(* JavaScript values *)

Undefined == [t |-> "undefined"]
Null      == [t |-> "null"]
Bool(b)   == [t |-> "bool", b |-> b]
Num(n)    == [t |-> "num", n |-> n]
Str(s)    == [t |-> "str", s |-> s]
Obj(f)    == [t |-> "obj", f |-> f]
Arr(a)    == [t |-> "arr", a |-> a]
Err(m)    == [t |-> "error", name |-> "Error", message |-> m]
TypeErr(m) == [t |-> "error", name |-> "TypeError", message |-> m]

\* completion of an evaluation: a value, or a thrown exception
Normal(v) == [c |-> "normal", v |-> v]
Throw(e)  == [c |-> "throw", v |-> e]

\* decimal digits of a natural number, as text pieces
Digit(d) == <<"0", "1", "2", "3", "4", "5", "6", "7", "8", "9">>[d + 1]

RECURSIVE NumberToString(_)
NumberToString(n) ==
  IF n < 10 THEN <<Digit(n)>>
  ELSE NumberToString(n \div 10) \o <<Digit(n % 10)>>

\* ToString of a primitive value (string concatenation, template literals)
ToString(v) ==
  CASE v.t = "undefined" -> <<"undefined">>
    [] v.t = "null"      -> <<"null">>
    [] v.t = "bool"      -> IF v.b THEN <<"true">> ELSE <<"false">>
    [] v.t = "num"       -> NumberToString(v.n)
    [] v.t = "str"       -> v.s

\* ToBoolean: the truthiness used by the conditional operator
ToBoolean(v) ==
  CASE v.t = "undefined" -> FALSE
    [] v.t = "null"      -> FALSE
    [] v.t = "bool"      -> v.b
    [] v.t = "num"       -> v.n # 0
    [] v.t = "str"       -> v.s # <<>>
    [] OTHER             -> TRUE

\* Array.isArray
IsArray(v) == v.t = "arr"

\* property read v.k: throws on null and undefined, undefined when absent
GetProp(v, k) ==
  CASE v.t \in {"undefined", "null"} ->
         Throw(TypeErr(<<"Cannot read properties of ">> \o ToString(v)))
    [] v.t = "obj" -> Normal(IF k \in DOMAIN v.f THEN v.f[k] ELSE Undefined)
    [] v.t = "error" -> Normal(IF k = "message" THEN Str(v.message) ELSE Undefined)
    [] OTHER -> Normal(Undefined)

-----------------------------------------------------------------------------
(* config/api.config.js *)

BASE_URL == <<"http://api.myapp.com/tasks">>

RETRY_ATTEMPTS == 3

-----------------------------------------------------------------------------
(* services/api.js: the transport client *)

RealCallWarning == Str(<<"Real API call initiated. Should be mocked in unit tests.">>)

FetchPrefix  == <<"Failed to fetch tasks: ">>
CreatePrefix == <<"Failed to create task: ">>

\* an observable event of a call
Event(e, arg) == [e |-> e, arg |-> arg]

\* JSON.stringify of a task-data object {name, completed}: properties in
\* insertion order, undefined-valued properties left out
JSONStringifyValue(v) ==
  CASE v.t = "str"  -> <<"\"">> \o v.s \o <<"\"">>
    [] v.t = "bool" -> ToString(v)
    [] v.t = "num"  -> ToString(v)
    [] v.t = "null" -> <<"null">>

JSONStringifyProp(o, k) ==
  IF k \in DOMAIN o.f /\ o.f[k].t # "undefined"
  THEN <<<<"\"", k, "\":">> \o JSONStringifyValue(o.f[k])>>
  ELSE <<>>

JSONStringify(o) ==
  LET props == JSONStringifyProp(o, "name") \o JSONStringifyProp(o, "completed")
  IN  Str(<<"{">>
          \o (IF Len(props) = 0 THEN <<>>
              ELSE IF Len(props) = 1 THEN props[1]
              ELSE props[1] \o <<",">> \o props[2])
          \o <<"}">>)

\* mutant: the configured retry count is honoured, one fetch per attempt
getTasksRequestsRetry ==
  [i \in 1..RETRY_ATTEMPTS |-> [url |-> BASE_URL, init |-> Undefined]]

\* the fetch calls getTasks makes: fetch(apiConfig.BASE_URL)
getTasksRequests == <<[url |-> BASE_URL, init |-> Undefined]>>

\* the fetch calls createTask makes: one POST with a JSON body
createTaskRequests(taskData) ==
  <<[url |-> BASE_URL,
     init |-> Obj([method  |-> Str(<<"POST">>),
                   headers |-> Obj([k \in {"Content-Type"} |->
                                       Str(<<"application/json">>)]),
                   body    |-> JSONStringify(taskData)])]>>

\* what getTasks does before its first await: the warning, then the fetch calls
getTasksPrologue ==
  <<Event("console.error", <<RealCallWarning>>)>>
  \o [i \in 1..Len(getTasksRequests) |-> Event("fetch", <<getTasksRequests[i]>>)]

\* what createTask does before its first await: the fetch call only
createTaskPrologue(taskData) ==
  [i \in 1..Len(createTaskRequests(taskData)) |->
     Event("fetch", <<createTaskRequests(taskData)[i]>>)]

\* mutant: the body is parsed first and the status is looked at afterwards
responseEventsParseFirst(ok) ==
  <<Event("response.json", <<>>), Event("response.ok", <<>>)>>

\* what getTasks / createTask do with a response: the ok check, and
\* response.json() only when the response is ok
responseEvents(ok) ==
  IF ok THEN <<Event("response.ok", <<>>), Event("response.json", <<>>)>>
  ELSE <<Event("response.ok", <<>>)>>

\* throw new Error(`HTTP ${response.status}: ${response.statusText}`)
httpError(response) ==
  Err(<<"HTTP ">> \o ToString(Num(response.status)) \o <<": ">>
      \o ToString(Str(response.statusText)))

\* the catch clause of getTasks / createTask: the value the promise rejects with
wrapError(prefix, error) ==
  LET m == GetProp(error, "message")
  IN  IF m.c = "throw" THEN m.v ELSE Err(prefix \o ToString(m.v))

\* mutant: the catch clause rethrows the error as it is, without the context
getTasksCatchBare(error) == error

getTasksCatch(error) == wrapError(FetchPrefix, error)

\* mutant: the catch clause copied from getTasks with its prefix
createTaskCatchCopied(error) == wrapError(FetchPrefix, error)

createTaskCatch(error) == wrapError(CreatePrefix, error)

transportCatch(o, error) ==
  IF o = "createTask" THEN createTaskCatch(error) ELSE getTasksCatch(error)

-----------------------------------------------------------------------------
(* logic/task_list.js *)

FormatErrorMessage == Str(<<"Invalid response format: expected array of tasks.">>)
LoadErrorMessage   == Str(<<"Failed to load tasks from server.">>)
DoneSuffix         == <<" (DONE)">>

\* mutant: the arms of the status conditional are swapped
formatTaskSwapped(task) ==
  LET id == GetProp(task, "id")
  IN  IF id.c = "throw" THEN id
      ELSE LET name      == GetProp(task, "name").v
               completed == GetProp(task, "completed").v
           IN  Normal(Obj([id      |-> id.v,
                           display |-> Str(ToString(name)
                                           \o (IF ToBoolean(completed)
                                               THEN DoneSuffix ELSE <<>>)),
                           status  |-> Str(IF ToBoolean(completed)
                                           THEN <<"Pending">>
                                           ELSE <<"Success">>)]))

\* the callback of rawTasks.map: one FormattedTask, or the TypeError of
\* reading a property of null/undefined
formatTask(task) ==
  LET id == GetProp(task, "id")
  IN  IF id.c = "throw" THEN id
      ELSE LET name      == GetProp(task, "name").v
               completed == GetProp(task, "completed").v
           IN  Normal(Obj([id      |-> id.v,
                           display |-> Str(ToString(name)
                                           \o (IF ToBoolean(completed)
                                               THEN DoneSuffix ELSE <<>>)),
                           status  |-> Str(IF ToBoolean(completed)
                                           THEN <<"Success">>
                                           ELSE <<"Pending">>)]))

\* Array.prototype.map with formatTask: elements in index order, the first
\* exception thrown by the callback ends the mapping
RECURSIVE ArrayMap(_)
ArrayMap(a) ==
  IF a = <<>> THEN Normal(<<>>)
  ELSE LET h == formatTask(Head(a))
       IN  IF h.c = "throw" THEN h
           ELSE LET rest == ArrayMap(Tail(a))
                IN  IF rest.c = "throw" THEN rest
                    ELSE Normal(<<h.v>> \o rest.v)

\* a result object {tasks, error}, with the events that led to it
TaskLoadResult(tasks, error, events) ==
  [c |-> "normal", tasks |-> tasks, error |-> error, events |-> events]

\* mutant: the catch clause logs and rethrows
loadTasksCatchRethrow(err) ==
  [c |-> "throw", v |-> err,
   events |-> <<Event("console.error", <<Str(<<"Error loading tasks:">>), err>>)>>]

\* mutant: the catch clause returns the generic message and logs nothing
loadTasksCatchSilent(err) == TaskLoadResult(<<>>, LoadErrorMessage, <<>>)

\* the catch clause of loadTasks: logs the error, returns the generic message
loadTasksCatch(err) ==
  TaskLoadResult(<<>>, LoadErrorMessage,
                 <<Event("console.error", <<Str(<<"Error loading tasks:">>), err>>)>>)

\* mutant: no Array.isArray gate; .map is called on whatever arrived
loadTasksTryNoGate(s) ==
  IF s.state = "rejected" THEN [c |-> "throw", v |-> s.value, events |-> <<>>]
  ELSE IF ~IsArray(s.value)
       THEN [c |-> "throw", v |-> TypeErr(<<"rawTasks.map is not a function">>),
             events |-> <<>>]
       ELSE LET m == ArrayMap(s.value.a)
                mapEvent == <<Event("map", <<Num(Len(s.value.a))>>)>>
            IN  IF m.c = "throw"
                THEN [c |-> "throw", v |-> m.v, events |-> mapEvent]
                ELSE TaskLoadResult(m.v, Null, mapEvent)

\* the try block of loadTasks from the point where `await api.getTasks()`
\* settles with s: a returned result, or an exception for the catch clause
loadTasksTry(s) ==
  IF s.state = "rejected" THEN [c |-> "throw", v |-> s.value, events |-> <<>>]
  ELSE IF ~IsArray(s.value)
       THEN TaskLoadResult(<<>>, FormatErrorMessage, <<>>)
       ELSE LET m == ArrayMap(s.value.a)
                mapEvent == <<Event("map", <<Num(Len(s.value.a))>>)>>
            IN  IF m.c = "throw"
                THEN [c |-> "throw", v |-> m.v, events |-> mapEvent]
                ELSE TaskLoadResult(m.v, Null, mapEvent)

\* mutant: the try block with no catch clause
loadTasksAfterAwaitNoCatch(s) == loadTasksTry(s)

\* loadTasks after its await: the try block, then the catch clause if it threw
loadTasksAfterAwait(s) ==
  LET t == loadTasksTry(s)
  IN  IF t.c = "throw"
      THEN LET h == loadTasksCatch(t.v)
           IN  [h EXCEPT !.events = t.events \o @]
      ELSE t

\* mutant: the status conditional is inverted
filterTasksByStatusInverted(tasks, completed) ==
  LET statusFilter == IF completed THEN Str(<<"Pending">>) ELSE Str(<<"Success">>)
      Keep(task) == GetProp(task, "status").v = statusFilter
  IN  SelectSeq(tasks, Keep)

\* the predicate filter of filterTasksByStatus, on the array's elements
filterTasksByStatus(tasks, completed) ==
  LET statusFilter == IF completed THEN Str(<<"Success">>) ELSE Str(<<"Pending">>)
      Keep(task) == GetProp(task, "status").v = statusFilter
  IN  SelectSeq(tasks, Keep)

-----------------------------------------------------------------------------
(* The environment: what the network and the jest mock of api.getTasks can do *)

TaskRecord(id, name, completed) ==
  Obj([id |-> id, name |-> name, completed |-> completed])

\* records of the documented shape {id, name, completed: boolean}
WellFormedRecords ==
  { TaskRecord(Num(1), Str(<<"Task 1">>), Bool(b)) : b \in BOOLEAN }
  \cup { TaskRecord(Num(2), Str(<<"Task 2">>), Bool(b)) : b \in BOOLEAN }

\* array elements of any other shape
IllShapedElements ==
  { Null,
    Num(5),
    Obj([id |-> Num(3), completed |-> Bool(TRUE)]),
    TaskRecord(Num(3), Str(<<"Task 3">>), Num(1)),
    TaskRecord(Num(3), Str(<<"Task 3">>), Str(<<"false">>)),
    TaskRecord(Num(3), Str(<<"Task 3">>), Num(0)) }

Elements == WellFormedRecords \cup IllShapedElements

ArraysOf(S) == { Arr(a) : a \in UNION { [1..n -> S] : n \in 0..MaxLen } }

NonArrays ==
  { Null, Num(5), Bool(TRUE), Str(<<"tasks">>), Obj([tasks |-> Arr(<<>>)]) }

\* what response.json() can resolve to
JsonValues == ArraysOf(Elements) \cup NonArrays

\* what fetch can reject with, and what response.json() can reject with
NetworkErrors ==
  { TypeErr(<<"Network request failed">>), Err(<<"Request timeout">>) }
ParseErrors == { [t |-> "error", name |-> "SyntaxError",
                  message |-> <<"Unexpected token < in JSON">>] }

\* the responses fetch can resolve to
Response(ok, status, statusText) ==
  [ok |-> ok, status |-> status, statusText |-> statusText]
NoResponse == Response(FALSE, 0, <<>>)
Responses ==
  { Response(TRUE, 200, <<"OK">>),
    Response(FALSE, 404, <<"Not Found">>),
    Response(FALSE, 500, <<"Internal Server Error">>) }

\* the argument of createTask
TaskDatas ==
  { Obj([name |-> Str(<<"Task 1">>)]),
    Obj([name |-> Str(<<"Task 2">>), completed |-> Bool(TRUE)]) }

Pending      == [state |-> "pending", value |-> Undefined]
Fulfilled(v) == [state |-> "fulfilled", value |-> v]
Rejected(e)  == [state |-> "rejected", value |-> e]

\* arrays with an undefined element, which no JSON text gives but a mock can
SparseArrays ==
  { Arr(<<Undefined>>),
    Arr(<<TaskRecord(Num(1), Str(<<"Task 1">>), Bool(TRUE)), Undefined>>) }

\* how a mocked api.getTasks (mockResolvedValue / mockRejectedValue) settles
MockOutcomes ==
  { Fulfilled(v) : v \in JsonValues \cup SparseArrays \cup {Undefined} }
  \cup { Rejected(e) : e \in { Err(<<"Network request failed">>),
                               Err(<<"404 Not Found: Resource not available">>),
                               Str(<<"boom">>), Null, Undefined } }

\* what getTasks settles with where two callers run at once: the empty
\* array, arrays of records, a value that is no array, an array whose
\* mapping throws, a rejection
ConcurrentValues ==
  { Arr(<<>>),
    Arr(<<TaskRecord(Num(1), Str(<<"Task 1">>), Bool(FALSE))>>),
    Arr(<<TaskRecord(Num(1), Str(<<"Task 1">>), Bool(TRUE)),
          TaskRecord(Num(2), Str(<<"Task 2">>), Bool(FALSE))>>),
    Null,
    Arr(<<Null>>) }
ConcurrentOutcomes ==
  { Fulfilled(v) : v \in ConcurrentValues }
  \cup { Rejected(Err(<<"Network request failed">>)) }

-----------------------------------------------------------------------------
(* The heap of array objects *)

NoArray == [owner |-> "none", a |-> <<>>]

Live(h) == { r \in Refs : h[r].owner # "none" }
OwnedBy(h, c) == { r \in Refs : h[r].owner = c }
\* mutant: every new array is placed in the same object
FreshShared(h) == CHOOSE r \in Refs : TRUE

Fresh(h) == CHOOSE r \in Refs : h[r].owner = "none"

\* the arrays of a caller's previous call become garbage when it calls again
Release(h, c) == [r \in Refs |-> IF h[r].owner = c THEN NoArray ELSE h[r]]

\* a new array object (an array literal, the result of map or of filter)
NewArray(h, c, a) == [h EXCEPT ![Fresh(h)] = [owner |-> c, a |-> a]]

\* mutant: the elements that do not match are removed from `in` itself, which
\* is returned
ArrayFilterInPlace(h, c, in, completed) ==
  [heap |-> [h EXCEPT ![in].a = filterTasksByStatus(h[in].a, completed)],
   out  |-> in]

\* tasks.filter(...) on the array object `in`: the heap afterwards and the
\* reference returned; filter builds a new array and leaves `in` alone
ArrayFilter(h, c, in, completed) ==
  [heap |-> NewArray(h, c, filterTasksByStatus(h[in].a, completed)),
   out  |-> Fresh(h)]

-----------------------------------------------------------------------------
(* models/task.js: the Task schema *)

\* String.prototype.repeat on a one-character string; a name is held as the
\* sequence of its characters
Rep(ch, n) == [i \in 1..n |-> ch]

RECURSIVE TrimStart(_)
TrimStart(s) ==
  IF s = <<>> \/ Head(s) # " " THEN s ELSE TrimStart(Tail(s))

RECURSIVE TrimEnd(_)
TrimEnd(s) ==
  IF s = <<>> \/ s[Len(s)] # " " THEN s ELSE TrimEnd(SubSeq(s, 1, Len(s) - 1))

\* String.prototype.trim
Trim(s) == TrimEnd(TrimStart(s))

MinNameLength == 1
MaxNameLength == 200

RequiredMessage  == <<"Task name is required.">>
MinlengthMessage == <<"Task name cannot be empty.">>
MaxlengthMessage == <<"Task name cannot exceed 200 characters.">>

\* the setter of the name path (trim: true): applied when the path is set,
\* to strings only
nameSetterNoTrim(v) == v

nameSetter(v) == IF v.t = "str" THEN Str(Trim(v.s)) ELSE v

\* the validators of the name path: required fails on a missing value and
\* on the empty string; the length validators pass a missing value
requiredValidator(v) == v.t = "str" /\ Len(v.s) > 0

minlengthValidator(v) ==
  v.t \in {"undefined", "null"} \/ Len(v.s) >= MinNameLength

maxlengthValidatorStrict(v) ==
  v.t \in {"undefined", "null"} \/ Len(v.s) < MaxNameLength

maxlengthValidator(v) ==
  v.t \in {"undefined", "null"} \/ Len(v.s) <= MaxNameLength

Valid == <<>>

\* validation of the name path: the validators run in the order required,
\* minlength, maxlength and the first one that fails gives the message
validateNameMinlengthFirst(v) ==
  IF ~minlengthValidator(v) THEN MinlengthMessage
  ELSE IF ~requiredValidator(v) THEN RequiredMessage
  ELSE IF ~maxlengthValidator(v) THEN MaxlengthMessage
  ELSE Valid

validateName(v) ==
  IF ~requiredValidator(v) THEN RequiredMessage
  ELSE IF ~minlengthValidator(v) THEN MinlengthMessage
  ELSE IF ~maxlengthValidator(v) THEN MaxlengthMessage
  ELSE Valid

\* the completed path: the value given, or the default false
completedOf(fields) ==
  IF "completed" \in DOMAIN fields.f THEN fields.f.completed.b ELSE FALSE

\* a new document built from `fields` at instant t under identity id:
\* createdAt defaults to Date.now and the timestamps option sets updatedAt
\* to the same instant
NewDocument(id, fields, t) ==
  [id |-> id, name |-> nameSetter(GetProp(fields, "name").v),
   completed |-> completedOf(fields), createdAt |-> t, updatedAt |-> t,
   modified |-> {}]

\* the stored form of a document
Stored(d) ==
  [name |-> d.name, completed |-> d.completed,
   createdAt |-> d.createdAt, updatedAt |-> d.updatedAt]

\* the in-memory document of a stored record
Hydrate(id, rec) ==
  [id |-> id, name |-> rec.name, completed |-> rec.completed,
   createdAt |-> rec.createdAt, updatedAt |-> rec.updatedAt, modified |-> {}]

Absent == [name |-> Undefined]
NoDoc  == [id |-> <<>>]

\* identities: an ObjectId is written as 24 hexadecimal digits
HexDigits == {Digit(d) : d \in 0..9} \cup {"a", "b", "c", "d", "e", "f"}
ObjectId(n) == [i \in 1..24 |-> IF i = 24 THEN Digit(n) ELSE "0"]
Ids == {ObjectId(n) : n \in IdNumbers}
SeqIds == {ObjectId(n) : n \in SeqIdNumbers}
IsObjectId(tok) == Len(tok) = 24 /\ \A i \in 1..24 : tok[i] \in HexDigits
MalformedIds == {<<"n","o","t","-","a","-","v","a","l","i","d","-","i","d">>,
                 SubSeq(ObjectId(1), 1, 23)}

\* the identity given to the next new document
NextId(u) ==
  ObjectId(CHOOSE n \in IdNumbers :
             /\ ObjectId(n) \notin u
             /\ \A m \in IdNumbers : m < n => ObjectId(m) \in u)

\* the update sent by save: the modified paths and updatedAt
Write(rec, d) ==
  [name      |-> IF "name" \in d.modified THEN d.name ELSE rec.name,
   completed |-> IF "completed" \in d.modified THEN d.completed
                 ELSE rec.completed,
   createdAt |-> rec.createdAt,
   updatedAt |-> d.updatedAt]

\* the timestamps option on save of an existing document
timestampsOnSaveBoth(d, t) == [d EXCEPT !.createdAt = t, !.updatedAt = t]

timestampsOnSave(d, t) == [d EXCEPT !.updatedAt = t]

Outcome(o, m, st, d) == [outcome |-> o, message |-> m, store |-> st, doc |-> d]

\* Task.create(fields) at instant t: validation, then the insert
create(st, u, fields, t) ==
  LET v == validateName(nameSetter(GetProp(fields, "name").v))
      d == NewDocument(NextId(u), fields, t)
  IN IF v # Valid THEN Outcome("ValidationError", v, st, NoDoc)
     ELSE Outcome("ok", <<>>, [st EXCEPT ![d.id] = Stored(d)], d)

\* doc.save() at instant t: validation, then the update of the modified
\* paths; a document with nothing modified is not written
save(st, d, t) ==
  LET v == validateName(d.name)
  IN IF v # Valid THEN Outcome("ValidationError", v, st, d)
     ELSE IF st[d.id] = Absent
       THEN Outcome("DocumentNotFoundError", <<>>, st, d)
     ELSE IF d.modified = {} THEN Outcome("ok", <<>>, st, d)
     ELSE LET w == timestampsOnSave(d, t)
          IN Outcome("ok", <<>>, [st EXCEPT ![d.id] = Write(st[d.id], w)],
                     [w EXCEPT !.modified = {}])

\* doc.name = v
assignName(d, v) ==
  LET n == nameSetter(v)
  IN [d EXCEPT !.name = n,
               !.modified = IF n = d.name THEN @ ELSE @ \cup {"name"}]

\* taskSchema.methods.toggleCompletion
toggleCompletionNoSave(st, d, t) ==
  Outcome("ok", <<>>, st, [d EXCEPT !.completed = ~@])

toggleCompletionSetTrue(st, d, t) ==
  save(st, [d EXCEPT !.completed = TRUE,
                     !.modified = @ \cup {"completed"}], t)

toggleCompletionAtomic(st, d, t) ==
  save(st, [d EXCEPT !.completed = IF st[d.id] = Absent THEN ~@
                                   ELSE ~st[d.id].completed,
                     !.modified = @ \cup {"completed"}], t)

toggleCompletionRestoring(st, d, t) ==
  LET r == save(st, [d EXCEPT !.completed = ~@,
                              !.modified = @ \cup {"completed"}], t)
  IN IF r.outcome = "ok" THEN r ELSE [r EXCEPT !.doc = d]

toggleCompletion(st, d, t) ==
  save(st, [d EXCEPT !.completed = ~@,
                     !.modified = @ \cup {"completed"}], t)

\* the relational operator > on times; an undefined operand converts to NaN
\* and the comparison is false
GreaterThan(a, b) == a.t = "num" /\ b.t = "num" /\ a.n > b.n

\* taskSchema.methods.isOverdue at instant t
isOverdueIgnoringCompleted(d, dueDate, t) == GreaterThan(Num(t), dueDate)

isOverdueNotBefore(d, dueDate, t) ==
  IF d.completed THEN FALSE
  ELSE dueDate.t = "num" /\ t >= dueDate.n

isOverdue(d, dueDate, t) ==
  IF d.completed THEN FALSE
  ELSE GreaterThan(Num(t), dueDate)

\* Task.findById(token): a token that is no ObjectId fails the cast (the
\* tokens looked up are of 24 hexadecimal digits, or of 14 and 23 characters)
findByIdNullOnCast(st, tok) ==
  IF ~IsObjectId(tok) \/ tok \notin DOMAIN st \/ st[tok] = Absent
    THEN Outcome("null", <<>>, st, NoDoc)
  ELSE Outcome("ok", <<>>, st, Hydrate(tok, st[tok]))

findById(st, tok) ==
  IF ~IsObjectId(tok)
    THEN Outcome("CastError", <<"Cast to ObjectId failed">>, st, NoDoc)
  ELSE IF tok \notin DOMAIN st \/ st[tok] = Absent
    THEN Outcome("null", <<>>, st, NoDoc)
  ELSE Outcome("ok", <<>>, st, Hydrate(tok, st[tok]))

\* Task.deleteOne({ _id: id })
deleteOne(st, id) == [st EXCEPT ![id] = Absent]

\* a query filter matches the stored records that have the values it names
EmptyFilter == Obj(<<>>)
CompletedFilter(b) == Obj([completed |-> Bool(b)])
Matches(rec, filter) ==
  "completed" \in DOMAIN filter.f => rec.completed = filter.f.completed.b

\* Task.find(filter): the documents of the stored records that match
find(st, filter) ==
  {Hydrate(i, st[i]) : i \in {j \in DOMAIN st : st[j] # Absent
                                                 /\ Matches(st[j], filter)}}

\* taskSchema.statics.findCompleted / findPending
findCompletedAll(st) == find(st, EmptyFilter)

findCompleted(st) == find(st, CompletedFilter(TRUE))

findPending(st) == find(st, CompletedFilter(FALSE))

\* Task.deleteMany(filter)
deleteMany(st, filter) ==
  [i \in DOMAIN st |->
     IF st[i] # Absent /\ Matches(st[i], filter) THEN Absent ELSE st[i]]

\* inputs: names of 0, 1, 200 and 201 characters other than blanks, with
\* and without a blank before and after
Pads == {0, 1}
CoreLengths == {0, MinNameLength, MaxNameLength, MaxNameLength + 1}
NameInput(l, n, t) == Rep(" ", l) \o Rep("a", n) \o Rep(" ", t)
NameInputs == {NameInput(l, n, t) : l \in Pads, n \in CoreLengths, t \in Pads}
CreateFields ==
  {Obj([completed |-> Bool(TRUE)])}
    \cup {Obj([name |-> Str(n)]) : n \in NameInputs}
    \cup {Obj([name |-> Str(NameInput(0, MinNameLength, 0)),
                completed |-> Bool(b)]) : b \in BOOLEAN}
AssignedNames ==
  {NameInput(0, MinNameLength, 0), NameInput(1, MaxNameLength, 1),
   NameInput(0, MaxNameLength + 1, 0), NameInput(1, 0, 0)}
DueDates == {Num(t) : t \in 0..MaxTime} \cup {Undefined}

\* the arguments of Task.create and of deleteMany where two callers share
\* the collection: seed tasks, completed or not
SeedFields ==
  {Obj([name |-> Str(NameInput(0, MinNameLength, 0))])}
    \cup {Obj([name |-> Str(NameInput(0, MinNameLength, 0)),
                completed |-> Bool(b)]) : b \in BOOLEAN}
Filters == {EmptyFilter, CompletedFilter(TRUE)}

\* the record of an operation on the model and of how it ended
NoOperation ==
  [op |-> "none", h |-> "none", arg |-> <<>>, outcome |-> "none",
   message |-> <<>>, result |-> FALSE]
Operation(o, h, arg, r) ==
  [op |-> o, h |-> h, arg |-> arg, outcome |-> r.outcome,
   message |-> r.message, result |-> FALSE]
NoToggle ==
  [valid |-> FALSE, h |-> "none", mem |-> FALSE, stored |-> FALSE,
   twice |-> FALSE, h0 |-> "none", mem0 |-> FALSE, stored0 |-> FALSE]

-----------------------------------------------------------------------------
(* State machine *)

NoNet    == [fetch |-> "none", error |-> Undefined, response |-> NoResponse,
             json |-> "none", body |-> Undefined]
NoResult == [state |-> "pending", tasks |-> "none", error |-> Undefined]
NoFilter == [in |-> "none", out |-> "none", completed |-> FALSE, before |-> <<>>]

\* the value of mongoServer while no server is registered
NoServer == 0

\* the values of mongoose.connection.readyState
Disconnected  == "disconnected"
Connected     == "connected"
Connecting    == "connecting"
Disconnecting == "disconnecting"

\* a caller of the database handler that has made no call yet
NoDbCall == [pc |-> "idle", op |-> "none", out |-> "none",
             stopping |-> NoServer, opened |-> FALSE, errors |-> 0]

Init ==
  /\ pc = [c \in Callers |-> "idle"]
  /\ op = [c \in Callers |-> "none"]
  /\ mocked = [c \in Callers |-> FALSE]
  /\ reqs = [c \in Callers |-> <<>>]
  /\ settled = [c \in Callers |-> Pending]
  /\ net = [c \in Callers |-> NoNet]
  /\ result = [c \in Callers |-> NoResult]
  /\ trace = [c \in Callers |-> <<>>]
  /\ heap = [r \in Refs |-> NoArray]
  /\ lastFilter = [c \in Callers |-> NoFilter]
  /\ store = [i \in Ids |-> Absent]
  /\ used = {}
  /\ docs = [h \in Handles |-> NoDoc]
  /\ now = 0
  /\ last = NoOperation
  /\ prevToggle = NoToggle
  /\ mongoServer = NoServer
  /\ servers = {}
  /\ created = 0
  /\ readyState = Disconnected
  /\ db = [d \in DbCallers |-> NoDbCall]

\* a caller starts a new call: the state of its previous call is dropped
StartCall(c, o, m) ==
  /\ pc[c] \in {"idle", "done"}
  /\ op' = [op EXCEPT ![c] = o]
  /\ mocked' = [mocked EXCEPT ![c] = m]
  /\ result' = [result EXCEPT ![c] = NoResult]
  /\ lastFilter' = [lastFilter EXCEPT ![c] = NoFilter]
  /\ heap' = Release(heap, c)
  /\ UNCHANGED storeVars
  /\ UNCHANGED dbVars

\* the promise of getTasks/createTask settles: loadTasks resumes after its
\* await, a direct caller of createTask is done
SettleTransport(c, s) ==
  /\ settled' = [settled EXCEPT ![c] = s]
  /\ pc' = [pc EXCEPT ![c] = IF op[c] = "loadTasks" THEN "awaitGetTasks" ELSE "done"]

\* loadTasks() with the real api module: api.getTasks() runs up to its first
\* await (warning, fetch), then both functions are suspended
LoadTasksCall(c) ==
  /\ StartCall(c, "loadTasks", FALSE)
  /\ reqs' = [reqs EXCEPT ![c] = getTasksRequests]
  /\ trace' = [trace EXCEPT ![c] = <<Event("getTasks", <<>>)>> \o getTasksPrologue]
  /\ net' = [net EXCEPT ![c] = [NoNet EXCEPT !.fetch = "pending"]]
  /\ settled' = [settled EXCEPT ![c] = Pending]
  /\ pc' = [pc EXCEPT ![c] = "awaitFetch"]

\* loadTasks() with api.getTasks mocked by jest: no transport code runs,
\* loadTasks awaits the promise the mock returned
LoadTasksCallMocked(c) ==
  /\ StartCall(c, "loadTasks", TRUE)
  /\ reqs' = [reqs EXCEPT ![c] = <<>>]
  /\ trace' = [trace EXCEPT ![c] = <<Event("getTasks", <<>>)>>]
  /\ net' = [net EXCEPT ![c] = NoNet]
  /\ settled' = [settled EXCEPT ![c] = Pending]
  /\ pc' = [pc EXCEPT ![c] = "awaitMock"]

\* the mock's promise settles as the test arranged (mockResolvedValue,
\* mockRejectedValue), with an outcome among `outcomes`
MockSettlesAs(c, outcomes) ==
  /\ pc[c] = "awaitMock"
  /\ \E s \in outcomes : SettleTransport(c, s)
  /\ UNCHANGED <<op, mocked, reqs, net, result, trace, heap, lastFilter>>
  /\ UNCHANGED storeVars
  /\ UNCHANGED dbVars

MockSettles(c) == MockSettlesAs(c, MockOutcomes)

\* createTask(taskData) called directly, up to its first await
CreateTaskCall(c) ==
  /\ StartCall(c, "createTask", FALSE)
  /\ \E taskData \in TaskDatas :
       /\ reqs' = [reqs EXCEPT ![c] = createTaskRequests(taskData)]
       /\ trace' = [trace EXCEPT ![c] = <<Event("createTask", <<taskData>>)>>
                                         \o createTaskPrologue(taskData)]
  /\ net' = [net EXCEPT ![c] = [NoNet EXCEPT !.fetch = "pending"]]
  /\ settled' = [settled EXCEPT ![c] = Pending]
  /\ pc' = [pc EXCEPT ![c] = "awaitFetch"]

\* fetch rejects: the catch clause wraps the error and the call rejects
FetchRejects(c) ==
  /\ pc[c] = "awaitFetch"
  /\ \E e \in NetworkErrors :
       /\ net' = [net EXCEPT ![c].fetch = "rejected", ![c].error = e]
       /\ SettleTransport(c, Rejected(transportCatch(op[c], e)))
  /\ UNCHANGED <<op, mocked, reqs, result, trace, heap, lastFilter>>
  /\ UNCHANGED storeVars
  /\ UNCHANGED dbVars

\* fetch resolves: response.ok is checked; a response that is not ok throws
\* into the catch clause, otherwise response.json() is called and awaited
FetchResolves(c) ==
  /\ pc[c] = "awaitFetch"
  /\ \E r \in Responses :
       IF ~r.ok
       THEN /\ net' = [net EXCEPT ![c].fetch = "resolved", ![c].response = r]
            /\ trace' = [trace EXCEPT ![c] = @ \o responseEvents(r.ok)]
            /\ SettleTransport(c, Rejected(transportCatch(op[c], httpError(r))))
       ELSE /\ net' = [net EXCEPT ![c].fetch = "resolved", ![c].response = r,
                                  ![c].json = "pending"]
            /\ trace' = [trace EXCEPT ![c] = @ \o responseEvents(r.ok)]
            /\ pc' = [pc EXCEPT ![c] = "awaitJson"]
            /\ UNCHANGED settled
  /\ UNCHANGED <<op, mocked, reqs, result, heap, lastFilter>>
  /\ UNCHANGED storeVars
  /\ UNCHANGED dbVars

\* response.json() resolves, to a value among `values`: the call resolves to
\* the parsed value
JsonResolvesTo(c, values) ==
  /\ pc[c] = "awaitJson"
  /\ \E v \in values :
       /\ net' = [net EXCEPT ![c].json = "resolved", ![c].body = v]
       /\ SettleTransport(c, Fulfilled(v))
  /\ UNCHANGED <<op, mocked, reqs, result, trace, heap, lastFilter>>
  /\ UNCHANGED storeVars
  /\ UNCHANGED dbVars

JsonResolves(c) == JsonResolvesTo(c, JsonValues)

\* response.json() rejects: the catch clause wraps the parse error
JsonRejects(c) ==
  /\ pc[c] = "awaitJson"
  /\ \E e \in ParseErrors :
       /\ net' = [net EXCEPT ![c].json = "rejected", ![c].error = e]
       /\ SettleTransport(c, Rejected(transportCatch(op[c], e)))
  /\ UNCHANGED <<op, mocked, reqs, result, trace, heap, lastFilter>>
  /\ UNCHANGED storeVars
  /\ UNCHANGED dbVars

\* loadTasks resumes after `await api.getTasks()`: it resolves to a result
\* whose tasks array is a new array object, or rejects if its catch clause
\* throws
LoadTasksResume(c) ==
  /\ pc[c] = "awaitGetTasks"
  /\ LET r == loadTasksAfterAwait(settled[c])
     IN  /\ IF r.c = "throw"
            THEN /\ result' = [result EXCEPT ![c] =
                       [state |-> "rejected", tasks |-> "none", error |-> r.v]]
                 /\ heap' = heap
            ELSE /\ result' = [result EXCEPT ![c] =
                       [state |-> "fulfilled", tasks |-> Fresh(heap),
                        error |-> r.error]]
                 /\ heap' = NewArray(heap, c, r.tasks)
         /\ trace' = [trace EXCEPT ![c] = @ \o r.events]
  /\ pc' = [pc EXCEPT ![c] = "done"]
  /\ UNCHANGED <<op, mocked, reqs, settled, net, lastFilter>>
  /\ UNCHANGED storeVars
  /\ UNCHANGED dbVars

\* the caller filters an array it holds: the tasks loadTasks returned, or the
\* result of an earlier filter
FilterTasksByStatus(c) ==
  /\ pc[c] = "done"
  /\ Live(heap) # Refs
  /\ \E in \in OwnedBy(heap, c), completed \in BOOLEAN :
       LET f == ArrayFilter(heap, c, in, completed)
       IN  /\ heap' = f.heap
           /\ lastFilter' = [lastFilter EXCEPT ![c] =
                 [in |-> in, out |-> f.out, completed |-> completed,
                  before |-> heap[in].a]]
  /\ UNCHANGED <<pc, op, mocked, reqs, settled, net, result, trace>>
  /\ UNCHANGED storeVars
  /\ UNCHANGED dbVars

Step(c) ==
  \/ LoadTasksCall(c)
  \/ LoadTasksCallMocked(c)
  \/ MockSettles(c)
  \/ CreateTaskCall(c)
  \/ FetchRejects(c)
  \/ FetchResolves(c)
  \/ JsonResolves(c)
  \/ JsonRejects(c)
  \/ LoadTasksResume(c)
  \/ FilterTasksByStatus(c)

Next == \E c \in SeqCallers : Step(c)

Spec == Init /\ [][Next]_vars

-----------------------------------------------------------------------------
(* State machine of concurrent callers of loadTasks *)

\* the callers whose loadTasks() has not returned yet
InFlight == {c \in Callers : pc[c] \notin {"idle", "done"}}

\* the heap has an object left for the result of every call in flight
\* besides the array about to be made, or the call about to be made by c,
\* whose earlier arrays are dropped
HeapHasRoom ==
  Cardinality(Live(heap)) + Cardinality(InFlight) < Cardinality(Refs)
HeapHasRoomFor(c) ==
  Cardinality(Live(heap) \ OwnedBy(heap, c)) + Cardinality(InFlight)
    < Cardinality(Refs)

StepConcurrent(c) ==
  \/ HeapHasRoomFor(c) /\ LoadTasksCall(c)
  \/ HeapHasRoomFor(c) /\ LoadTasksCallMocked(c)
  \/ MockSettlesAs(c, ConcurrentOutcomes)
  \/ FetchRejects(c)
  \/ FetchResolves(c)
  \/ JsonResolvesTo(c, ConcurrentValues)
  \/ JsonRejects(c)
  \/ LoadTasksResume(c)
  \/ HeapHasRoom /\ FilterTasksByStatus(c)

NextConcurrent == \E c \in Callers : StepConcurrent(c)

SpecConcurrent == Init /\ [][NextConcurrent]_vars

-----------------------------------------------------------------------------
(* State machine of the Task model *)

\* const task = await Task.create(fields), for fields among `inputs` and
\* while the identity of the new document is among `ids`
CreateFrom(h, inputs, ids) ==
  \E fields \in inputs :
    /\ \/ used # Ids /\ NextId(used) \in ids
       \/ validateName(nameSetter(GetProp(fields, "name").v)) # Valid
    /\ LET r == create(store, used, fields, now)
       IN /\ store' = r.store
          /\ used' = IF r.outcome = "ok" THEN used \cup {r.doc.id} ELSE used
          /\ docs' = IF r.outcome = "ok" THEN [docs EXCEPT ![h] = r.doc]
                     ELSE docs
          /\ last' = Operation("create", h, fields, r)
    /\ prevToggle' = NoToggle
    /\ UNCHANGED now
    /\ UNCHANGED frontVars
    /\ UNCHANGED dbVars

Create(h) == CreateFrom(h, CreateFields, SeqIds)

\* const task = await Task.findById(token), for a token among `tokens`
FindByIdAmong(h, tokens) ==
  \E tok \in tokens :
    LET r == findById(store, tok)
    IN /\ docs' = IF r.outcome = "CastError" THEN docs
                  ELSE [docs EXCEPT ![h] = r.doc]
       /\ last' = Operation("findById", h, tok, r)
       /\ prevToggle' = NoToggle
       /\ UNCHANGED <<store, used, now>>
       /\ UNCHANGED frontVars
       /\ UNCHANGED dbVars

FindById(h) == FindByIdAmong(h, Ids \cup MalformedIds)

\* task.name = v
AssignName(h) ==
  /\ docs[h] # NoDoc
  /\ \E v \in AssignedNames :
       /\ docs' = [docs EXCEPT ![h] = assignName(@, Str(v))]
       /\ last' = [NoOperation EXCEPT !.op = "assign", !.h = h,
                                     !.arg = Str(v), !.outcome = "ok"]
  /\ prevToggle' = NoToggle
  /\ UNCHANGED <<store, used, now>>
  /\ UNCHANGED frontVars
  /\ UNCHANGED dbVars

\* await task.save()
Save(h) ==
  /\ docs[h] # NoDoc
  /\ LET r == save(store, docs[h], now)
     IN /\ store' = r.store
        /\ docs' = [docs EXCEPT ![h] = r.doc]
        /\ last' = Operation("save", h, <<>>, r)
  /\ prevToggle' = NoToggle
  /\ UNCHANGED <<used, now>>
  /\ UNCHANGED frontVars
  /\ UNCHANGED dbVars

\* await task.toggleCompletion()
ToggleCompletion(h) ==
  /\ docs[h] # NoDoc
  /\ LET r == toggleCompletion(store, docs[h], now)
     IN /\ store' = r.store
        /\ docs' = [docs EXCEPT ![h] = r.doc]
        /\ last' = Operation("toggleCompletion", h, <<>>, r)
        /\ prevToggle' =
             IF r.outcome = "ok"
               THEN [valid |-> TRUE, h |-> h, mem |-> docs[h].completed,
                     stored |-> store[docs[h].id].completed,
                     twice |-> prevToggle.valid /\ prevToggle.h = h,
                     h0 |-> prevToggle.h,
                     mem0 |-> prevToggle.mem, stored0 |-> prevToggle.stored]
             ELSE NoToggle
  /\ UNCHANGED <<used, now>>
  /\ UNCHANGED frontVars
  /\ UNCHANGED dbVars

\* task.isOverdue(dueDate)
IsOverdue(h) ==
  /\ docs[h] # NoDoc
  /\ \E dueDate \in DueDates :
       last' = [NoOperation EXCEPT !.op = "isOverdue", !.h = h,
                                  !.arg = dueDate, !.outcome = "ok",
                                  !.result = isOverdue(docs[h], dueDate, now)]
  /\ prevToggle' = NoToggle
  /\ UNCHANGED <<store, used, docs, now>>
  /\ UNCHANGED frontVars
  /\ UNCHANGED dbVars

\* await Task.deleteOne({ _id: id })
DeleteOne ==
  /\ \E id \in Ids :
       /\ store' = deleteOne(store, id)
       /\ last' = [NoOperation EXCEPT !.op = "deleteOne", !.arg = id,
                                     !.outcome = "ok"]
  /\ prevToggle' = NoToggle
  /\ UNCHANGED <<used, docs, now>>
  /\ UNCHANGED frontVars
  /\ UNCHANGED dbVars

\* time passes
Tick ==
  /\ now < MaxTime
  /\ now' = now + 1
  /\ last' = [NoOperation EXCEPT !.op = "tick"]
  /\ UNCHANGED <<store, used, docs, prevToggle>>
  /\ UNCHANGED frontVars
  /\ UNCHANGED dbVars

StepStore(h) ==
  \/ Create(h)
  \/ FindById(h)
  \/ AssignName(h)
  \/ Save(h)
  \/ ToggleCompletion(h)
  \/ IsOverdue(h)

NextStore ==
  \/ \E h \in SeqHandles : StepStore(h)
  \/ DeleteOne
  \/ Tick

SpecStore == Init /\ [][NextStore]_vars

-----------------------------------------------------------------------------
(* State machine of the Task model with two callers and two identities *)

\* const tasks = await Task.findCompleted()
FindCompleted ==
  /\ last' = [NoOperation EXCEPT !.op = "findCompleted", !.outcome = "ok",
                                !.result = findCompleted(store)]
  /\ prevToggle' = NoToggle
  /\ UNCHANGED <<store, used, docs, now>>
  /\ UNCHANGED frontVars
  /\ UNCHANGED dbVars

\* const tasks = await Task.findPending()
FindPending ==
  /\ last' = [NoOperation EXCEPT !.op = "findPending", !.outcome = "ok",
                                !.result = findPending(store)]
  /\ prevToggle' = NoToggle
  /\ UNCHANGED <<store, used, docs, now>>
  /\ UNCHANGED frontVars
  /\ UNCHANGED dbVars

\* await Task.deleteMany(filter)
DeleteMany ==
  /\ \E filter \in Filters :
       /\ store' = deleteMany(store, filter)
       /\ last' = [NoOperation EXCEPT !.op = "deleteMany", !.arg = filter,
                                     !.outcome = "ok"]
  /\ prevToggle' = NoToggle
  /\ UNCHANGED <<used, docs, now>>
  /\ UNCHANGED frontVars
  /\ UNCHANGED dbVars

StepShared(h) ==
  \/ CreateFrom(h, SeedFields, Ids)
  \/ FindByIdAmong(h, Ids)
  \/ ToggleCompletion(h)

NextShared ==
  \/ \E h \in Handles : StepShared(h)
  \/ FindCompleted
  \/ FindPending
  \/ DeleteMany

SpecShared == Init /\ [][NextShared]_vars

-----------------------------------------------------------------------------
(* test-utils/db-handler.js: the in-memory database of the tests.  connect  *)
(* and disconnect are async functions: a call runs until its next await,   *)
(* and each await is settled by a step of its own, so that the calls of    *)
(* two callers interleave at the awaits.  MongoMemoryServer.create,        *)
(* mongoServer.stop and mongoose.connect settle either way;                *)
(* mongoose.disconnect is taken to resolve.                                *)

\* where the body of disconnect() suspends when it never stops the server
disconnectSkipStop(rs, ms) ==
  IF rs # Disconnected THEN "awaitDisconnect" ELSE "returned"

\* where the body of disconnect() suspends next, run from its first test
\* with the connection in state rs and mongoServer holding ms: at the await
\* of mongoose.disconnect(), at the await of mongoServer.stop(), or nowhere
disconnect(rs, ms) ==
  IF rs # Disconnected THEN "awaitDisconnect"
  ELSE IF ms # NoServer THEN "awaitStop"
  ELSE "returned"

\* the running servers if stop() stopped every one of them
stopEvery(running, s) == {}

\* the running servers once the stop() of server s has resolved
stop(running, s) == running \ {s}

\* the call o of caller d runs the body of disconnect() from its first
\* test, with the connection in state rs; a connect() call goes on to await
\* the promise of its disconnect() call
RunDisconnect(d, o, rs) ==
  LET at == disconnect(rs, mongoServer)
  IN /\ readyState' = IF at = "awaitDisconnect" THEN Disconnecting ELSE rs
     /\ db' = [db EXCEPT ![d] =
          [pc |-> IF at # "returned" THEN at
                  ELSE IF o = "connect" THEN "awaitDisconnected" ELSE "done",
           op |-> o,
           out |-> IF at = "returned" /\ o = "disconnect"
                   THEN "resolved" ELSE "pending",
           stopping |-> IF at = "awaitStop" THEN mongoServer ELSE NoServer,
           opened |-> FALSE,
           errors |-> 0]]

\* the call of caller d rejects; each catch block it passes through logs
\* the error once and throws it again
Rejects(d, logged) ==
  db' = [db EXCEPT ![d] = [@ EXCEPT !.pc = "done", !.out = "rejected",
                                    !.stopping = NoServer,
                                    !.errors = logged]]

\* caller d calls connect(): it calls disconnect() first
Connect(d) ==
  /\ db[d].pc \in {"idle", "done"}
  /\ RunDisconnect(d, "connect", readyState)
  /\ UNCHANGED <<mongoServer, servers, created>>
  /\ UNCHANGED <<frontVars, storeVars>>

\* caller d calls disconnect()
Disconnect(d) ==
  /\ db[d].pc \in {"idle", "done"}
  /\ RunDisconnect(d, "disconnect", readyState)
  /\ UNCHANGED <<mongoServer, servers, created>>
  /\ UNCHANGED <<frontVars, storeVars>>

\* mongoose.disconnect() resolves: the connection is closed and the body of
\* disconnect() goes on to its second test
MongooseDisconnectSettles(d) ==
  /\ db[d].pc = "awaitDisconnect"
  /\ RunDisconnect(d, db[d].op, Disconnected)
  /\ UNCHANGED <<mongoServer, servers, created>>
  /\ UNCHANGED <<frontVars, storeVars>>

\* mongoServer.stop() settles: resolved, the server has stopped, the
\* documents it held are gone and mongoServer is set to null; rejected, disconnect() logs and rejects, and
\* so does the connect() that called it
ServerStopSettles(d) ==
  /\ db[d].pc = "awaitStop"
  /\ \E ok \in BOOLEAN :
       IF ok
       THEN /\ servers' = stop(servers, db[d].stopping)
            /\ mongoServer' = NoServer
            /\ store' = deleteMany(store, EmptyFilter)
            /\ last' = [NoOperation EXCEPT !.op = "stop", !.outcome = "ok"]
            /\ prevToggle' = NoToggle
            /\ db' = [db EXCEPT ![d] =
                 [@ EXCEPT !.pc = IF db[d].op = "connect"
                                  THEN "awaitDisconnected" ELSE "done",
                           !.out = IF db[d].op = "connect"
                                   THEN "pending" ELSE "resolved",
                           !.stopping = NoServer]]
       ELSE /\ Rejects(d, IF db[d].op = "connect" THEN 2 ELSE 1)
            /\ UNCHANGED <<servers, mongoServer, store, last, prevToggle>>
  /\ UNCHANGED <<created, readyState>>
  /\ UNCHANGED <<used, docs, now>>
  /\ UNCHANGED frontVars

\* the promise of the disconnect() call inside connect() has resolved:
\* connect() calls MongoMemoryServer.create()
DisconnectReturns(d) ==
  /\ db[d].pc = "awaitDisconnected"
  /\ db' = [db EXCEPT ![d].pc = "awaitCreate"]
  /\ UNCHANGED <<mongoServer, servers, created, readyState>>
  /\ UNCHANGED <<frontVars, storeVars>>

\* MongoMemoryServer.create() settles: resolved, the new server runs, is
\* assigned to mongoServer and mongoose.connect(uri) is called; rejected,
\* connect() logs and rejects
ServerCreateSettles(d) ==
  /\ db[d].pc = "awaitCreate"
  /\ \E ok \in BOOLEAN :
       IF ok
       THEN /\ created < MaxServers
            /\ created' = created + 1
            /\ servers' = servers \cup {created + 1}
            /\ mongoServer' = created + 1
            /\ readyState' = IF readyState = Disconnected
                              THEN Connecting ELSE readyState
            /\ db' = [db EXCEPT ![d].pc = "awaitConnect",
                                 ![d].opened = (readyState = Disconnected)]
       ELSE /\ Rejects(d, 1)
            /\ UNCHANGED <<mongoServer, servers, created, readyState>>
  /\ UNCHANGED <<frontVars, storeVars>>

\* mongoose.connect(uri) settles: resolved, the connection is open and
\* connect() resolves; rejected, a connection this call was opening is
\* closed again and connect() logs and rejects
MongooseConnectSettles(d) ==
  /\ db[d].pc = "awaitConnect"
  /\ \E ok \in BOOLEAN :
       IF ok
       THEN /\ readyState' = Connected
            /\ db' = [db EXCEPT ![d].pc = "done", ![d].out = "resolved"]
       ELSE /\ readyState' = IF db[d].opened THEN Disconnected
                              ELSE readyState
            /\ Rejects(d, 1)
  /\ UNCHANGED <<mongoServer, servers, created>>
  /\ UNCHANGED <<frontVars, storeVars>>

\* no call of the database handler is suspended
DbQuiet == \A d \in DbCallers : db[d].pc \in {"idle", "done"}

\* clearDatabase(), called while the connection is open: every document of
\* every collection is deleted
ClearDatabase ==
  /\ readyState = Connected
  /\ DbQuiet
  /\ store' = deleteMany(store, EmptyFilter)
  /\ last' = [NoOperation EXCEPT !.op = "clearDatabase", !.outcome = "ok"]
  /\ prevToggle' = NoToggle
  /\ UNCHANGED <<used, docs, now>>
  /\ UNCHANGED frontVars
  /\ UNCHANGED dbVars

\* seedDatabase(Task, data), called while the connection is open
SeedDatabase(h) ==
  /\ readyState = Connected
  /\ DbQuiet
  /\ CreateFrom(h, SeedFields, Ids)

StepDb(d) ==
  \/ Connect(d)
  \/ Disconnect(d)
  \/ MongooseDisconnectSettles(d)
  \/ ServerStopSettles(d)
  \/ DisconnectReturns(d)
  \/ ServerCreateSettles(d)
  \/ MongooseConnectSettles(d)

\* one caller: every call is settled before the next one is made
NextDb ==
  \/ \E d \in SeqDbCallers : StepDb(d)
  \/ ClearDatabase
  \/ \E h \in SeqHandles : SeedDatabase(h)

SpecDb == Init /\ [][NextDb]_vars

\* two callers: a call may start while the call of the other is suspended
NextDbOverlap == \E d \in DbCallers : StepDb(d)

SpecDbOverlap == Init /\ [][NextDbOverlap]_vars

-----------------------------------------------------------------------------
(* Properties of the pipeline *)

\* caller c's loadTasks() call has returned
LoadDone(c) == op[c] = "loadTasks" /\ pc[c] = "done"

\* the contents of the tasks array loadTasks returned to c
TasksOf(c) == heap[result[c].tasks].a

\* number of events named e in a trace
CountEvents(tr, e) == Cardinality({ i \in 1..Len(tr) : tr[i].e = e })

\* a record of the documented shape {id: number, name: string, completed: boolean}
IsWellFormedRecord(v) ==
  /\ v.t = "obj"
  /\ DOMAIN v.f = {"id", "name", "completed"}
  /\ v.f.id.t = "num"
  /\ v.f.name.t = "str"
  /\ v.f.completed.t = "bool"

IsWellFormedArray(v) ==
  IsArray(v) /\ \A i \in 1..Len(v.a) : IsWellFormedRecord(v.a[i])

\* C1: when getTasks resolves to an array of well-formed records, loadTasks
\* resolves with error null and one task per record, in the input order, with
\* the record's id, status "Success" for completed records and "Pending" for
\* the others, and display equal to the name, followed by " (DONE)" exactly
\* for completed records; the empty array gives no tasks.
C1_WellFormedMapping ==
  \A c \in Callers :
    (LoadDone(c) /\ settled[c].state = "fulfilled"
                 /\ IsWellFormedArray(settled[c].value)) =>
      LET in == settled[c].value.a
      IN  /\ result[c].state = "fulfilled"
          /\ result[c].error = Null
          /\ Len(TasksOf(c)) = Len(in)
          /\ \A i \in 1..Len(in) :
               /\ TasksOf(c)[i].f.id = in[i].f.id
               /\ TasksOf(c)[i].f.status =
                    (IF in[i].f.completed.b THEN Str(<<"Success">>)
                                            ELSE Str(<<"Pending">>))
               /\ TasksOf(c)[i].f.display =
                    (IF in[i].f.completed.b
                     THEN Str(in[i].f.name.s \o <<" (DONE)">>)
                     ELSE in[i].f.name)

\* a call that mapped two different well-formed records, one completed and
\* one pending
C1_Witness ==
  \E c \in Callers :
    /\ LoadDone(c) /\ settled[c].state = "fulfilled"
    /\ IsWellFormedArray(settled[c].value)
    /\ Len(settled[c].value.a) = 2
    /\ settled[c].value.a[1].f.completed.b
    /\ ~settled[c].value.a[2].f.completed.b
    /\ settled[c].value.a[1].f.id # settled[c].value.a[2].f.id
    /\ Len(TasksOf(c)) = 2

\* C2: however getTasks rejects, loadTasks resolves (it does not reject) to
\* tasks [] and the one message "Failed to load tasks from server."
C2_RejectionGivesGenericError ==
  \A c \in Callers :
    (LoadDone(c) /\ settled[c].state = "rejected") =>
      /\ result[c].state = "fulfilled"
      /\ result[c].error = Str(<<"Failed to load tasks from server.">>)
      /\ TasksOf(c) = <<>>

\* a call whose getTasks rejected after a response that was not ok
C2_Witness ==
  \E c \in Callers :
    /\ LoadDone(c) /\ settled[c].state = "rejected"
    /\ net[c].fetch = "resolved" /\ ~net[c].response.ok
    /\ result[c].state = "fulfilled"

\* C3: when getTasks resolves to a value that is not an array, loadTasks
\* resolves to tasks [] and "Invalid response format: expected array of
\* tasks.", and map is never called.
C3_NonArrayGivesFormatError ==
  \A c \in Callers :
    (LoadDone(c) /\ settled[c].state = "fulfilled"
                 /\ settled[c].value.t # "arr") =>
      /\ result[c].state = "fulfilled"
      /\ result[c].error =
           Str(<<"Invalid response format: expected array of tasks.">>)
      /\ TasksOf(c) = <<>>
      /\ CountEvents(trace[c], "map") = 0

\* a call whose getTasks resolved to null
C3_Witness ==
  \E c \in Callers :
    /\ LoadDone(c) /\ settled[c].state = "fulfilled"
    /\ settled[c].value = Null
    /\ result[c].state = "fulfilled"

\* the cause of a failed transport call, from what the network did
FailureCause(n) ==
  IF n.fetch = "rejected" THEN n.error.message
  ELSE IF n.fetch = "resolved" /\ ~n.response.ok
       THEN <<"HTTP ">> \o NumberToString(n.response.status) \o <<": ">>
            \o n.response.statusText
       ELSE n.error.message

NetworkFailed(n) ==
  \/ n.fetch = "rejected"
  \/ n.fetch = "resolved" /\ ~n.response.ok
  \/ n.json = "rejected"

\* number of occurrences of a text piece in a string
CountPieces(str, piece) == Cardinality({ i \in 1..Len(str) : str[i] = piece })

\* C4: a real getTasks call whose fetch rejects, whose response is not ok or
\* whose body fails to parse rejects with an Error whose message is
\* "Failed to fetch tasks: " followed by the cause (the network error's
\* message, "HTTP <status>: <statusText>", the parse error's message), the
\* prefix occurring once.
C4_GetTasksWrapsFailures ==
  \A c \in Callers :
    (op[c] = "loadTasks" /\ ~mocked[c] /\ NetworkFailed(net[c])) =>
      /\ settled[c].state = "rejected"
      /\ settled[c].value.t = "error"
      /\ settled[c].value.name = "Error"
      /\ settled[c].value.message =
           <<"Failed to fetch tasks: ">> \o FailureCause(net[c])
      /\ CountPieces(settled[c].value.message, "Failed to fetch tasks: ") = 1

\* a getTasks call that failed on a 404 response
C4_Witness ==
  \E c \in Callers :
    /\ op[c] = "loadTasks" /\ ~mocked[c]
    /\ net[c].fetch = "resolved" /\ net[c].response.status = 404
    /\ settled[c].state = "rejected"
    /\ settled[c].value.message =
         <<"Failed to fetch tasks: ", "HTTP ", "4", "0", "4", ": ", "Not Found">>

\* caller c has called filterTasksByStatus
Filtered(c) == lastFilter[c].in # "none"

\* C5: filterTasksByStatus leaves its input array as it was (same length,
\* same elements, same order) and returns another array object, also when
\* every element matches.
C5_FilterDoesNotMutate ==
  \A c \in Callers :
    Filtered(c) =>
      /\ heap[lastFilter[c].in].a = lastFilter[c].before
      /\ lastFilter[c].out # lastFilter[c].in
      /\ heap[lastFilter[c].out].owner = c

\* a filter call on a non-empty array all of whose elements matched
C5_Witness ==
  \E c \in Callers :
    /\ Filtered(c)
    /\ Len(lastFilter[c].before) = 2
    /\ heap[lastFilter[c].out].a = lastFilter[c].before
    /\ lastFilter[c].out # lastFilter[c].in

\* s is the subsequence of t made of the elements at the indices in idx
IsSelection(s, t, idx) ==
  /\ Len(s) = Cardinality(idx)
  /\ \E f \in [1..Len(s) -> idx] :
       /\ \A j, k \in 1..Len(s) : j < k => f[j] < f[k]
       /\ \A k \in 1..Len(s) : s[k] = t[f[k]]

\* C6: filterTasksByStatus(tasks, true) returns the elements whose status is
\* "Success", filterTasksByStatus(tasks, false) those whose status is
\* "Pending", in their input order; nothing when none matches or tasks is
\* empty.
C6_FilterSelectsByStatus ==
  \A c \in Callers :
    Filtered(c) =>
      LET wanted == IF lastFilter[c].completed THEN Str(<<"Success">>)
                                               ELSE Str(<<"Pending">>)
          t == lastFilter[c].before
      IN  IsSelection(heap[lastFilter[c].out].a, t,
                      { i \in 1..Len(t) : t[i].f.status = wanted })

\* a filter call that kept the second of two tasks and dropped the first
C6_Witness ==
  \E c \in Callers :
    /\ Filtered(c)
    /\ Len(lastFilter[c].before) = 2
    /\ heap[lastFilter[c].out].a = <<lastFilter[c].before[2]>>
    /\ lastFilter[c].before[1] # lastFilter[c].before[2]

\* C7: for every array getTasks resolves to, whatever its records look like,
\* each task produced has status "Success" exactly when the record's
\* completed was the boolean true, and status is "Success" or "Pending".
C7_StatusIffBooleanTrue ==
  \A c \in Callers :
    (LoadDone(c) /\ settled[c].state = "fulfilled" /\ IsArray(settled[c].value)
                 /\ result[c].state = "fulfilled" /\ result[c].error = Null) =>
      \A i \in 1..Len(TasksOf(c)) :
        /\ TasksOf(c)[i].f.status \in {Str(<<"Success">>), Str(<<"Pending">>)}
        /\ (TasksOf(c)[i].f.status = Str(<<"Success">>))
             <=> (GetProp(settled[c].value.a[i], "completed").v = Bool(TRUE))

\* an {id, name, completed} object
IsTaskObject(v) ==
  v.t = "obj" /\ {"id", "name", "completed"} \subseteq DOMAIN v.f

\* C8: when getTasks resolves to an array whose elements are not all
\* {id, name, completed} objects, loadTasks reports "Invalid response format:
\* expected array of tasks." with no tasks.
C8_IllShapedElementsGiveFormatError ==
  \A c \in Callers :
    (LoadDone(c) /\ settled[c].state = "fulfilled" /\ IsArray(settled[c].value)
                 /\ \E i \in 1..Len(settled[c].value.a) :
                      ~IsTaskObject(settled[c].value.a[i])) =>
      /\ result[c].state = "fulfilled"
      /\ result[c].error =
           Str(<<"Invalid response format: expected array of tasks.">>)
      /\ TasksOf(c) = <<>>

IsRealCallWarning(ev) ==
  /\ ev.e = "console.error"
  /\ ev.arg = <<Str(<<"Real API call initiated. Should be mocked in unit tests.">>)>>

\* C9: every real transport call, getTasks and createTask alike, emits the
\* warning "Real API call initiated. Should be mocked in unit tests." before
\* its network call.
C9_WarningBeforeEveryFetch ==
  \A c \in Callers :
    \A i \in 1..Len(trace[c]) :
      trace[c][i].e = "fetch" =>
        \E j \in 1..(i - 1) : IsRealCallWarning(trace[c][j])

\* C10: a getTasks call issues one fetch, of the configured base URL with no
\* options, whether it succeeds or fails (the retry and timeout settings
\* cause no second request and no abort signal), and a loadTasks call calls
\* getTasks once.
C10_SingleFetchSingleGetTasks ==
  \A c \in Callers :
    op[c] = "loadTasks" =>
      /\ CountEvents(trace[c], "getTasks") = 1
      /\ ~mocked[c] =>
           /\ reqs[c] = <<[url |-> <<"http://api.myapp.com/tasks">>, init |-> Undefined]>>
           /\ CountEvents(trace[c], "fetch") = 1

\* a loadTasks call that has returned after the body failed to parse
C10_Witness ==
  \E c \in Callers :
    /\ LoadDone(c) /\ ~mocked[c]
    /\ net[c].json = "rejected"
    /\ settled[c].state = "rejected"
    /\ CountEvents(trace[c], "fetch") = 1

\* the JSON text of the task data used by the callers of createTask
ExpectedBody(data) ==
  CASE data = Obj([name |-> Str(<<"Task 1">>)]) ->
         Str(<<"{", "\"", "name", "\":", "\"", "Task 1", "\"", "}">>)
    [] data = Obj([name |-> Str(<<"Task 2">>), completed |-> Bool(TRUE)]) ->
         Str(<<"{", "\"", "name", "\":", "\"", "Task 2", "\"", ",",
               "\"", "completed", "\":", "true", "}">>)

\* C11: createTask(data) issues one POST to the base URL with header
\* Content-Type: application/json and the JSON text of data as body; on an ok
\* response whose body parses it resolves to the parsed body; when fetch
\* rejects, the response is not ok or the body fails to parse it rejects with
\* an Error whose message is "Failed to create task: " followed by the cause.
C11_CreateTaskPostsAndWraps ==
  \A c \in Callers :
    op[c] = "createTask" =>
      LET data == trace[c][1].arg[1]
      IN  /\ trace[c][1].e = "createTask"
          /\ CountEvents(trace[c], "fetch") = 1
          /\ Len(reqs[c]) = 1
          /\ reqs[c][1].url = <<"http://api.myapp.com/tasks">>
          /\ reqs[c][1].init.f.method = Str(<<"POST">>)
          /\ DOMAIN reqs[c][1].init.f.headers.f = {"Content-Type"}
          /\ reqs[c][1].init.f.headers.f["Content-Type"] = Str(<<"application/json">>)
          /\ reqs[c][1].init.f.body = ExpectedBody(data)
          /\ net[c].json = "resolved" =>
               /\ net[c].response.ok
               /\ settled[c] = Fulfilled(net[c].body)
          /\ NetworkFailed(net[c]) =>
               /\ settled[c].state = "rejected"
               /\ settled[c].value.t = "error"
               /\ settled[c].value.name = "Error"
               /\ settled[c].value.message =
                    <<"Failed to create task: ">> \o FailureCause(net[c])
          /\ settled[c].state = "fulfilled" => net[c].json = "resolved"

\* a createTask call for {name, completed} that was rejected on a 500 response
C11_Witness ==
  \E c \in Callers :
    /\ op[c] = "createTask" /\ pc[c] = "done"
    /\ trace[c][1].arg[1] = Obj([name |-> Str(<<"Task 2">>), completed |-> Bool(TRUE)])
    /\ net[c].response.status = 500
    /\ settled[c].state = "rejected"
    /\ settled[c].value.message =
         <<"Failed to create task: ", "HTTP ", "5", "0", "0", ": ",
           "Internal Server Error">>

-----------------------------------------------------------------------------
(* Properties of the Task model *)

\* the stored record of identity i, when there is one
IsStored(i) == store[i] # Absent

\* positions of the first and last character of s that is not a blank
FirstNonBlank(s) ==
  CHOOSE i \in 1..Len(s) : s[i] # " " /\ \A j \in 1..(i - 1) : s[j] = " "
LastNonBlank(s) ==
  CHOOSE i \in 1..Len(s) : s[i] # " " /\ \A j \in (i + 1)..Len(s) : s[j] = " "

\* the number of characters of s between its leading and trailing blanks
TrimmedLength(s) ==
  IF \A i \in 1..Len(s) : s[i] = " " THEN 0
  ELSE LastNonBlank(s) - FirstNonBlank(s) + 1

\* n is a string of 1 to 200 characters with no blank at either end
NameOK(n) ==
  /\ n.t = "str"
  /\ Len(n.s) >= 1 /\ Len(n.s) <= 200
  /\ n.s[1] # " " /\ n.s[Len(n.s)] # " "

\* v, once trimmed, is no name a task may have
NameViolates(v) ==
  v.t # "str" \/ TrimmedLength(v.s) < 1 \/ TrimmedLength(v.s) > 200

StoredNamesOK == \A i \in Ids : IsStored(i) => NameOK(store[i].name)

\* C12: whatever operations have been carried out, every stored task has a
\* trimmed, non-empty name of at most 200 characters; and a create or a
\* save (toggleCompletion's included) of a name that is not such a name
\* fails with ValidationError and leaves the whole collection as it was
C12_StoredNamesValid ==
  [][/\ StoredNamesOK'
     /\ (last'.op = "create" /\ NameViolates(GetProp(last'.arg, "name").v))
          => (last'.outcome = "ValidationError" /\ store' = store)
     /\ \A h \in Handles :
          (last'.op \in {"save", "toggleCompletion"} /\ last'.h = h
             /\ NameViolates(docs'[h].name))
          => (last'.outcome = "ValidationError" /\ store' = store)]_vars

\* a save of a 201-character name has failed while a task is stored
C12_Witness ==
  /\ last.op = "save" /\ last.outcome = "ValidationError"
  /\ last.message = MaxlengthMessage
  /\ docs[last.h].name = Str(Rep("a", 201))
  /\ IsStored(docs[last.h].id)
  /\ store[docs[last.h].id].name = Str(Rep("a", 1))

\* the name given to Task.create in `fields`
NameGiven(fields) == GetProp(fields, "name").v

\* s consists of blanks only (the empty string included)
IsBlank(s) == \A i \in 1..Len(s) : s[i] = " "

\* C13: Task.create with no name, with the empty string or with a name of
\* blanks only fails with ValidationError and the message 'Task name is
\* required.', not the message of the minlength validator
C13_MissingNameIsRequired ==
  (/\ last.op = "create"
   /\ \/ NameGiven(last.arg) = Undefined
      \/ NameGiven(last.arg).t = "str" /\ IsBlank(NameGiven(last.arg).s))
  => /\ last.outcome = "ValidationError"
     /\ last.message = <<"Task name is required.">>
     /\ last.message # <<"Task name cannot be empty.">>

\* Task.create({ name: '  ' }) has failed with the required message
C13_Witness ==
  /\ last.op = "create"
  /\ NameGiven(last.arg) = Str(<<" ", " ">>)
  /\ last.outcome = "ValidationError"
  /\ last.message = RequiredMessage

\* C14: the limit of 200 characters applies to the trimmed name and does
\* not depend on the required check: a name of exactly 200 characters once
\* trimmed is accepted, also when it was longer with its blanks, and a
\* name of 201 or more characters once trimmed fails with 'Task name
\* cannot exceed 200 characters.', never with the required message; at
\* create and at save
C14_LimitAfterTrimming ==
  /\ (last.op = "create" /\ NameGiven(last.arg).t = "str")
     => LET given == NameGiven(last.arg).s
        IN /\ TrimmedLength(given) = 200
                => /\ last.outcome = "ok"
                   /\ IsStored(docs[last.h].id)
                   /\ Len(store[docs[last.h].id].name.s) = 200
           /\ TrimmedLength(given) >= 201
                => /\ last.outcome = "ValidationError"
                   /\ last.message = <<"Task name cannot exceed 200 characters.">>
                   /\ last.message # <<"Task name is required.">>
  /\ last.op \in {"save", "toggleCompletion"}
     => LET name == docs[last.h].name.s
        IN /\ Len(name) = 200 => last.outcome # "ValidationError"
           /\ Len(name) >= 201
                => /\ last.outcome = "ValidationError"
                   /\ last.message = <<"Task name cannot exceed 200 characters.">>

\* a name of 202 characters, 200 of them between two blanks, was accepted
C14_Witness ==
  /\ last.op = "create" /\ last.outcome = "ok"
  /\ NameGiven(last.arg) = Str(<<" ">> \o Rep("a", 200) \o <<" ">>)
  /\ store[docs[last.h].id].name = Str(Rep("a", 200))

\* tok is a well-formed identity: 24 hexadecimal digits
WellFormed(tok) == tok \in [1..24 -> HexDigits]

\* C15: findById has three outcomes: the stored task for a well-formed
\* id under which a task is stored; null, with no error, for a well-formed
\* id under which none is stored, also when deleteOne has just removed it;
\* CastError, never null, for a malformed id
C15_FindByIdOutcomes ==
  last.op = "findById" =>
    LET tok == last.arg
        found == docs[last.h]
    IN /\ (WellFormed(tok) /\ tok \in Ids /\ IsStored(tok))
            => /\ last.outcome = "ok"
               /\ found.id = tok
               /\ found.name = store[tok].name
               /\ found.completed = store[tok].completed
               /\ found.createdAt = store[tok].createdAt
               /\ found.updatedAt = store[tok].updatedAt
       /\ (WellFormed(tok) /\ ~(tok \in Ids /\ IsStored(tok)))
            => (last.outcome = "null" /\ found = NoDoc)
       /\ ~WellFormed(tok)
            => (last.outcome = "CastError" /\ last.outcome # "null")

\* findById of an identity that was assigned and then removed gave null
C15_Witness ==
  /\ last.op = "findById" /\ last.outcome = "null"
  /\ last.arg \in used /\ ~IsStored(last.arg)
  /\ docs[last.h] = NoDoc

\* the step is a toggleCompletion() through handle h that succeeded
ToggledOK(h) ==
  /\ last'.op = "toggleCompletion" /\ last'.h = h /\ last'.outcome = "ok"
  /\ docs[h] # NoDoc

CreatedOK(h) ==
  last'.op = "create" /\ last'.h = h /\ last'.outcome = "ok"

\* the step is a successful mutation through handle h: a toggleCompletion,
\* or a save of a document with a modified path
MutatedOK(h) ==
  /\ last'.h = h /\ last'.outcome = "ok"
  /\ docs[h] # NoDoc
  /\ \/ last'.op = "toggleCompletion"
     \/ last'.op = "save" /\ docs[h].modified # {}

\* every stored task was updated no earlier than it was created
UpdatedAfterCreated ==
  \A i \in Ids : IsStored(i) => store[i].updatedAt >= store[i].createdAt

C19_IsOverdue ==
  [][\A h \in Handles :
       (last'.op = "isOverdue" /\ last'.h = h) =>
         LET dueDate == last'.arg
         IN /\ docs[h].completed => last'.result = FALSE
            /\ ~docs[h].completed =>
                 (last'.result = (dueDate.t = "num" /\ now > dueDate.n))
            /\ (~docs[h].completed /\ dueDate = Num(now))
                 => last'.result = FALSE
            /\ docs' = docs
            /\ store' = store]_vars

\* isOverdue of a past date on a task that is not completed gave true
C19_Witness ==
  /\ last.op = "isOverdue" /\ last.result = TRUE
  /\ ~docs[last.h].completed
  /\ last.arg.t = "num" /\ last.arg.n < now

\* C20, as stated: isOverdue is true only when completed is false and the
\* reference date is strictly after the instant of the call
C20_TrueOnlyIfReferenceLater ==
  (last.op = "isOverdue" /\ last.result = TRUE)
  => /\ ~docs[last.h].completed
     /\ last.arg.t = "num" /\ last.arg.n > now

\* C20, amended: isOverdue is true only when completed is false and the
\* instant of the call is strictly after the reference date
C20_TrueOnlyIfNowLater ==
  (last.op = "isOverdue" /\ last.result = TRUE)
  => /\ ~docs[last.h].completed
     /\ last.arg.t = "num" /\ now > last.arg.n

\* isOverdue gave true at instant 1 for the reference date 0 on a task that
\* is not completed
C20_Witness ==
  /\ last.op = "isOverdue" /\ last.result = TRUE
  /\ ~docs[last.h].completed
  /\ last.arg = Num(0) /\ now = 1

-----------------------------------------------------------------------------
(* Properties of the Task model with two callers and two identities *)

\* the identities of a set of documents
IdsOf(documents) == {d.id : d \in documents}

\* the identities under which a task with completed = b is stored
StoredWith(b) == {i \in Ids : IsStored(i) /\ store[i].completed = b}

\* d is the document of the record stored under its identity
IsStoredDocument(d) ==
  /\ d.id \in Ids /\ IsStored(d.id)
  /\ d.name = store[d.id].name /\ d.completed = store[d.id].completed

\* C21: in every state of the collection findCompleted() gives exactly the
\* stored tasks with completed true and findPending() exactly those with
\* completed false, so the two are disjoint and together they are every
\* stored task; and after deleteMany({completed: true}) findCompleted() is
\* empty and findPending() gives the tasks it gave before the delete
C21_QueriesPartition ==
  [][/\ last'.op = "findCompleted"
          => /\ IdsOf(last'.result) = StoredWith(TRUE)
             /\ \A d \in last'.result : IsStoredDocument(d)
     /\ last'.op = "findPending"
          => /\ IdsOf(last'.result) = StoredWith(FALSE)
             /\ \A d \in last'.result : IsStoredDocument(d)
     /\ IdsOf(findCompleted(store')) \cap IdsOf(findPending(store')) = {}
     /\ IdsOf(findCompleted(store')) \cup IdsOf(findPending(store'))
          = {i \in Ids : store'[i] # Absent}
     /\ (last'.op = "deleteMany" /\ last'.arg = CompletedFilter(TRUE))
          => /\ findCompleted(store') = {}
             /\ findPending(store') = findPending(store)]_vars

\* deleteMany({completed: true}) has removed a completed task and left a
\* pending one, which findPending() still gives
C21_Witness ==
  /\ last.op = "deleteMany" /\ last.arg = CompletedFilter(TRUE)
  /\ used = Ids
  /\ Cardinality(findPending(store)) = 1
  /\ findCompleted(store) = {}

-----------------------------------------------------------------------------
(* Properties of concurrent callers of loadTasks *)

\* what loadTasks gives for the outcome s of getTasks
ExpectedResult(s) == loadTasksAfterAwait(s)

\* caller c takes no step: neither its position nor its last filter changes
Idles(c) == pc'[c] = pc[c] /\ lastFilter'[c] = lastFilter[c]

\* C22: concurrent loadTasks() calls are independent under every
\* interleaving: the result of each is the one its own getTasks() outcome
\* gives; the tasks arrays of different callers are different objects,
\* each made for its caller; and no step of another caller changes a
\* result or the array it holds
C22_ConcurrentCallsIndependent ==
  [][/\ \A c \in Callers : LoadDone(c)' =>
          /\ result'[c].state = "fulfilled"
          /\ result'[c].error = ExpectedResult(settled'[c]).error
          /\ heap'[result'[c].tasks].a = ExpectedResult(settled'[c]).tasks
          /\ heap'[result'[c].tasks].owner = c
     /\ \A c, d \in Callers : (c # d /\ LoadDone(c)' /\ LoadDone(d)')
          => result'[c].tasks # result'[d].tasks
     /\ \A c \in Callers : (LoadDone(c) /\ Idles(c))
          => /\ result'[c] = result[c]
             /\ heap'[result[c].tasks] = heap[result[c].tasks]]_vars

\* both callers' calls were in flight together and have returned, one with
\* two tasks and one with the load error, and the first has filtered
C22_Witness ==
  /\ LoadDone("c1") /\ LoadDone("c2")
  /\ result["c1"].error = Null /\ Len(TasksOf("c1")) = 2
  /\ result["c2"].error = LoadErrorMessage /\ TasksOf("c2") = <<>>
  /\ mocked["c1"] /\ ~mocked["c2"]
  /\ lastFilter["c1"].in = result["c1"].tasks
  /\ Len(heap[lastFilter["c1"].out].a) = 1

-----------------------------------------------------------------------------
(* Further properties of the pipeline *)

\* the step is the part of caller c's loadTasks() after its await
Resumes(c) == pc[c] = "awaitGetTasks" /\ pc'[c] = "done"

\* what caller c's loadTasks() writes on the error channel in this step
LoggedInStep(c) ==
  LET IsLog(e) == e.e = "console.error"
  IN  SelectSeq(SubSeq(trace'[c], Len(trace[c]) + 1, Len(trace'[c])), IsLog)

\* the text pieces of the message of a thrown value that has one
MessagePieces(v) ==
  IF v.t = "error" THEN {v.message[i] : i \in 1..Len(v.message)} ELSE {}

\* C23: when getTasks() fails, loadTasks() writes the error it caught on the
\* error channel exactly once and nothing of it is in the result it
\* returns; when it returns the tasks, and when it returns the format
\* error, it writes nothing on the error channel
C23_CauseLoggedNotSurfaced ==
  [][\A c \in Callers : Resumes(c) =>
       /\ settled[c].state = "rejected"
            => /\ Len(LoggedInStep(c)) = 1
               /\ LoggedInStep(c)[1].arg[2] = settled[c].value
               /\ result'[c].state = "fulfilled"
               /\ result'[c].error = LoadErrorMessage
               /\ heap'[result'[c].tasks].a = <<>>
               /\ \A i \in 1..Len(result'[c].error.s) :
                    result'[c].error.s[i] \notin MessagePieces(settled[c].value)
       /\ (result'[c].state = "fulfilled"
             /\ result'[c].error \in {Null, FormatErrorMessage})
            => LoggedInStep(c) = <<>>]_vars

\* a loadTasks() over the real transport has logged the HTTP 404 failure
\* and returned the generic message
C23_Witness ==
  /\ LoadDone("c1") /\ ~mocked["c1"]
  /\ settled["c1"] = Rejected(Err(<<"Failed to fetch tasks: ", "HTTP ", "4", "0",
                                    "4", ": ", "Not Found">>))
  /\ trace["c1"][Len(trace["c1"])]
       = Event("console.error",
               <<Str(<<"Error loading tasks:">>), settled["c1"].value>>)
  /\ result["c1"].error = LoadErrorMessage

\* the positions of the events named e in a trace
Positions(tr, e) == {i \in 1..Len(tr) : tr[i].e = e}

\* C24: getTasks() and createTask() look at the status of the response
\* before they parse its body: fetch comes first, then the ok check, then
\* json(); json() is not called on a response that is not ok, and neither
\* the ok check nor json() happens when fetch rejects
C24_StatusCheckedBeforeParse ==
  \A c \in Callers : (op[c] \in {"loadTasks", "createTask"} /\ ~mocked[c]) =>
    LET tr == trace[c]
    IN /\ \A i \in Positions(tr, "response.ok") :
            \E j \in Positions(tr, "fetch") : j < i
       /\ \A i \in Positions(tr, "response.json") :
            \E j \in Positions(tr, "response.ok") : j < i
       /\ net[c].fetch = "resolved"
            => Cardinality(Positions(tr, "response.ok")) = 1
       /\ (net[c].fetch = "resolved" /\ net[c].response.ok)
            => Cardinality(Positions(tr, "response.json")) = 1
       /\ (net[c].fetch = "resolved" /\ ~net[c].response.ok)
            => Positions(tr, "response.json") = {}
       /\ net[c].fetch \in {"pending", "rejected"}
            => /\ Positions(tr, "response.ok") = {}
               /\ Positions(tr, "response.json") = {}

\* createTask() got a 404 response: the status was checked and the body
\* was not parsed
C24_Witness ==
  /\ op["c1"] = "createTask" /\ pc["c1"] = "done"
  /\ net["c1"].fetch = "resolved" /\ net["c1"].response.status = 404
  /\ Cardinality(Positions(trace["c1"], "response.ok")) = 1
  /\ Positions(trace["c1"], "response.json") = {}

\* C25: loadTasks() is total: whatever getTasks() does (it rejects, it gives
\* a value that is no array, it gives an array, also one with a null or
\* undefined element on which the mapping throws) the promise resolves; the
\* error of the result is null or one of the two messages; and tasks is
\* empty when error is not null
C25_LoadTasksTotal ==
  \A c \in Callers : LoadDone(c) =>
    /\ result[c].state = "fulfilled"
    /\ result[c].error \in {Null, LoadErrorMessage, FormatErrorMessage}
    /\ result[c].error # Null => TasksOf(c) = <<>>

\* getTasks() gave an array whose second element is undefined: the mapping
\* threw and loadTasks() resolved with the load error and no tasks
C25_Witness ==
  /\ LoadDone("c1")
  /\ settled["c1"].state = "fulfilled" /\ IsArray(settled["c1"].value)
  /\ Len(settled["c1"].value.a) = 2 /\ settled["c1"].value.a[2] = Undefined
  /\ result["c1"].state = "fulfilled"
  /\ result["c1"].error = LoadErrorMessage
  /\ TasksOf("c1") = <<>>

-----------------------------------------------------------------------------
(* Further properties of the Task model *)

\* the step is a toggleCompletion() through handle h whose save failed
ToggleFailed(h) ==
  /\ last'.op = "toggleCompletion" /\ last'.h = h /\ last'.outcome # "ok"
  /\ docs[h] # NoDoc

\* C26, as stated: when the save of toggleCompletion() fails the call
\* fails, the collection is as it was, completed stays negated in memory,
\* and the value in memory differs from the stored one
C26_FailedToggleDiffersFromStored ==
  [][\A h \in Handles : ToggleFailed(h) =>
       /\ last'.outcome \in {"ValidationError", "DocumentNotFoundError"}
       /\ store' = store
       /\ docs'[h].completed = ~docs[h].completed
       /\ IsStored(docs[h].id)
            => docs'[h].completed # store'[docs[h].id].completed]_vars

\* C26, amended: when the save of toggleCompletion() fails the call fails,
\* the collection is as it was, and completed stays negated in memory; so
\* the value in memory differs from the stored one exactly when the two
\* agreed before the call
C26_FailedToggleKeepsFlip ==
  [][\A h \in Handles : ToggleFailed(h) =>
       /\ last'.outcome \in {"ValidationError", "DocumentNotFoundError"}
       /\ store' = store
       /\ docs'[h].completed = ~docs[h].completed
       /\ docs'[h].name = docs[h].name
       /\ IsStored(docs[h].id)
            => ((docs'[h].completed # store'[docs[h].id].completed)
                 = (docs[h].completed = store[docs[h].id].completed))]_vars

\* toggleCompletion() has failed on a task whose name was made too long:
\* completed is true in memory and false in the collection
C26_Witness ==
  /\ last.op = "toggleCompletion" /\ last.outcome = "ValidationError"
  /\ docs[last.h].name = Str(Rep("a", 201))
  /\ docs[last.h].completed = TRUE
  /\ IsStored(docs[last.h].id)
  /\ store[docs[last.h].id].completed = FALSE

\* two successful toggleCompletion() calls have followed each other
\* directly, through different handles on documents of the same task
Raced ==
  /\ prevToggle.valid
  /\ prevToggle.h0 \notin {"none", prevToggle.h}
  /\ docs[prevToggle.h] # NoDoc /\ docs[prevToggle.h0] # NoDoc
  /\ docs[prevToggle.h].id = docs[prevToggle.h0].id

\* C27: toggleCompletion() is not atomic with respect to the collection. It
\* stores the negation of the caller's copy, so it changes the stored value
\* exactly when the copy had the stored value. When two callers toggle one
\* after the other and the copy of the second was loaded before the save
\* of the first (it has the value stored before that save), the stored
\* value ends as the negation of the original: one update is lost; the
\* stored value is back at the original only when the copy of the second
\* was loaded after the save of the first
C27_ToggleNotAtomic ==
  [][/\ \A h \in Handles : ToggledOK(h) =>
          LET before == store[docs[h].id].completed
              after  == store'[docs[h].id].completed
          IN /\ after = ~docs[h].completed
             /\ (after = ~before) = (docs[h].completed = before)
     /\ Raced' =>
          LET stored == store'[docs'[prevToggle'.h].id].completed
          IN /\ prevToggle'.mem = prevToggle'.stored0
                  => stored = ~prevToggle'.stored0
             /\ stored = prevToggle'.stored0
                  => prevToggle'.mem # prevToggle'.stored0]_vars

\* both callers loaded the task while false was stored, then each toggled
\* once: true is stored, not false
C27_Witness ==
  /\ Raced /\ last.op = "toggleCompletion"
  /\ prevToggle.stored0 = FALSE /\ prevToggle.mem0 = FALSE
  /\ prevToggle.mem = FALSE /\ prevToggle.stored = TRUE
  /\ store[docs[prevToggle.h].id].completed = TRUE
  /\ docs["h1"].completed = TRUE /\ docs["h2"].completed = TRUE

-----------------------------------------------------------------------------
(* Properties of the database handler *)

\* nothing is connected: the connection is closed, no server runs and no
\* server is registered
NothingConnected ==
  /\ readyState = Disconnected
  /\ servers = {}
  /\ mongoServer = NoServer

\* C28: while the calls of connect() and disconnect() follow one another,
\* at most one in-memory server runs at any time; connect() calls
\* MongoMemoryServer.create() only once the connection is closed and no
\* server runs or is registered; when disconnect() has resolved, the
\* connection is closed, no server runs and mongoServer is null; and
\* disconnect() called with nothing connected resolves and changes nothing.
C28_OneServerAtATime ==
  [][/\ Cardinality(servers') <= 1
     /\ \A d \in DbCallers :
          /\ db[d].pc # "awaitCreate" /\ db'[d].pc = "awaitCreate"
                => NothingConnected'
          /\ /\ db'[d] # db[d]
              /\ db'[d].op = "disconnect"
              /\ db'[d].out = "resolved"
                => NothingConnected'
          /\ /\ db[d].pc \in {"idle", "done"}
              /\ db'[d] # db[d]
              /\ db'[d].op = "disconnect"
              /\ NothingConnected
                => /\ db'[d].pc = "done"
                   /\ db'[d].out = "resolved"
                   /\ db'[d].errors = 0
                   /\ NothingConnected'
                   /\ UNCHANGED <<created, storeVars>>]_vars

\* a second connect() has resolved: the first server was stopped and the
\* second one is the only one running
C28_Witness ==
  /\ db["d1"].op = "connect" /\ db["d1"].out = "resolved"
  /\ created = 2
  /\ servers = {2}
  /\ mongoServer = 2
  /\ readyState = Connected

\* server s runs, is not the registered one, and no disconnect() is
\* stopping it
Orphaned(s) ==
  /\ s \in servers
  /\ s # mongoServer
  /\ \A d \in DbCallers : db[d].stopping # s

\* C29: where connect() calls overlap, mongoServer references no server but
\* the last one created, and a running server that is neither registered
\* nor being stopped is never stopped by any later step.
C29_OverlappingConnectsLeak ==
  [][/\ mongoServer' \in {NoServer, created'}
     /\ \A s \in servers : Orphaned(s) => Orphaned(s)']_vars

\* two connect() calls overlapped: both passed their disconnect() with no
\* server registered and each created a server; a later disconnect() has
\* resolved, having stopped the second server, and the first still runs
C29_Witness ==
  /\ DbQuiet
  /\ db["d1"].op = "disconnect" /\ db["d1"].out = "resolved"
  /\ db["d2"].op = "connect"
  /\ created = 2
  /\ servers = {1}
  /\ mongoServer = NoServer
  /\ Orphaned(1)

-----------------------------------------------------------------------------
(* Properties of filtering what loadTasks produced *)

\* the raw records whose completed is the boolean b, in their order
RawWith(raw, b) ==
  LET Keep(task) == GetProp(task, "completed").v = Bool(b)
  IN  SelectSeq(raw, Keep)

\* the two filters split tasks, and filtering a result again changes it
\* only when the flag is the opposite one
FiltersSplit(tasks) ==
  LET done == filterTasksByStatus(tasks, TRUE)
      todo == filterTasksByStatus(tasks, FALSE)
  IN  /\ \A i \in 1..Len(done) : \A j \in 1..Len(todo) : done[i] # todo[j]
      /\ Len(done) + Len(todo) = Len(tasks)
      /\ filterTasksByStatus(done, TRUE) = done
      /\ filterTasksByStatus(todo, FALSE) = todo
      /\ filterTasksByStatus(done, FALSE) = <<>>
      /\ filterTasksByStatus(todo, TRUE) = <<>>

\* C30: for every tasks sequence loadTasks produced, the filter by true and
\* the filter by false are disjoint and their lengths sum to the length of
\* tasks, filtering a result again with the same flag returns it and with
\* the opposite flag returns nothing, and the filter by c is the mapping of
\* exactly the raw records whose completed equals c.
C30_FilterFollowsRawCompleted ==
  \A c \in Callers :
    (LoadDone(c) /\ settled[c].state = "fulfilled" /\ IsArray(settled[c].value)
                 /\ result[c].state = "fulfilled" /\ result[c].error = Null) =>
      /\ FiltersSplit(TasksOf(c))
      /\ \A b \in BOOLEAN :
           filterTasksByStatus(TasksOf(c), b)
             = ArrayMap(RawWith(settled[c].value.a, b)).v


====
